---- MODULE Spec2Model ----
(***************************************************************************)
(* Model of actions.py: the campus-location resolver (ActionSendLocation,  *)
(* load_places, extract_number, detect_kind, norm), the GPA form           *)
(* (ValidateGpaForm, ActionCalculateGpa, score_to_grade) and the tuition   *)
(* calculator (ActionCalculateTuition, ensure_user).                       *)
(*                                                                         *)
(* Texts are sequences of characters; a character is a string.  ASCII      *)
(* characters stand for themselves.  A Cyrillic letter is written          *)
(* "cy_<latin transliteration>" (lower case) or "CY_<...>" (upper case):   *)
(*   cy_b U+0431, cy_a U+0430, cy_j U+0439, cy_r U+0440, cy_d U+0434,      *)
(*   cy_o U+043E, cy_t U+0442, cy_u U+0443, cy_h U+0445, cy_i U+0438,      *)
(*   cy_ch U+0447, cy_e U+0435, cy_yo U+0451, cy_eh U+044D, cy_l U+043B,   *)
(*   cy_n U+043D, cy_m U+043C, cy_s U+0441, cy_g U+0433, cy_sh U+0448,     *)
(*   cy_zh U+0436.  The dashes U+2010..U+2014 are "u2010".."u2014" and the  *)
(*   curly quotes U+201C, U+201D are "u201C", "u201D"; U+0060 is           *)
(*   "backtick".                                                           *)
(* Floats are fixed point: scores, credits and quality points in tenths.   *)
(* An optional value is <<>> (None) or <<v>>.                              *)
(***************************************************************************)
EXTENDS Integers, Sequences, FiniteSets, TLC

None == <<>>
Some(v) == <<v>>
IsSome(o) == o # <<>>
Val(o) == o[1]

SetMax(S) == CHOOSE x \in S : \A y \in S : y <= x
SetMin(S) == CHOOSE x \in S : \A y \in S : x <= y

(***************************************************************************)
(* Characters                                                              *)
(***************************************************************************)
Whitespace == {" ", "\t", "\n"}
Digits == {"0", "1", "2", "3", "4", "5", "6", "7", "8", "9"}
Dashes == {"-", "u2010", "u2011", "u2012", "u2013", "u2014"}
QuoteChars == {"u201C", "u201D", "\"", "'", "backtick"}
PunctChars == {",", ".", "(", ")", "[", "]", "{", "}"}

DigitVal(c) ==
    CASE c = "0" -> 0 [] c = "1" -> 1 [] c = "2" -> 2 [] c = "3" -> 3
      [] c = "4" -> 4 [] c = "5" -> 5 [] c = "6" -> 6 [] c = "7" -> 7
      [] c = "8" -> 8 [] c = "9" -> 9

DigitChar(d) ==
    CASE d = 0 -> "0" [] d = 1 -> "1" [] d = 2 -> "2" [] d = 3 -> "3"
      [] d = 4 -> "4" [] d = 5 -> "5" [] d = 6 -> "6" [] d = 7 -> "7"
      [] d = 8 -> "8" [] d = 9 -> "9"

\* str.lower() on one character, for the upper-case letters the texts use
UpperLower ==
    { <<"CY_b", "cy_b">>, <<"CY_a", "cy_a">>, <<"CY_j", "cy_j">>,
      <<"CY_r", "cy_r">>, <<"CY_d", "cy_d">>, <<"CY_o", "cy_o">>,
      <<"CY_t", "cy_t">>, <<"CY_u", "cy_u">>, <<"CY_yo", "cy_yo">>,
      <<"A", "a">>, <<"D", "d">>, <<"L", "l">>, <<"M", "m">>, <<"O", "o">>,
      <<"R", "r">> }

Lower(c) ==
    IF \E p \in UpperLower : p[1] = c
    THEN (CHOOSE p \in UpperLower : p[1] = c)[2]
    ELSE c

(***************************************************************************)
(* String helpers: str.strip, str.lower, str.replace, re.sub, `in`         *)
(***************************************************************************)
RECURSIVE LStrip(_)
LStrip(s) ==
    IF s # <<>> /\ Head(s) \in Whitespace THEN LStrip(Tail(s)) ELSE s

RECURSIVE RStrip(_)
RStrip(s) ==
    IF s # <<>> /\ s[Len(s)] \in Whitespace
    THEN RStrip(SubSeq(s, 1, Len(s) - 1))
    ELSE s

Strip(s) == RStrip(LStrip(s))

LowerStr(s) == [i \in 1..Len(s) |-> Lower(s[i])]

\* s.replace(a, b) for single characters
ReplaceChar(s, a, b) == [i \in 1..Len(s) |-> IF s[i] = a THEN b ELSE s[i]]

\* re.sub(r"[C]", "", s)
RECURSIVE RemoveChars(_, _)
RemoveChars(s, C) ==
    IF s = <<>> THEN <<>>
    ELSE IF Head(s) \in C THEN RemoveChars(Tail(s), C)
    ELSE <<Head(s)>> \o RemoveChars(Tail(s), C)

\* re.sub(r"[C]", " ", s)
CharsToSpace(s, C) == [i \in 1..Len(s) |-> IF s[i] \in C THEN " " ELSE s[i]]

\* re.sub(r"\s+", " ", s)
RECURSIVE CollapseSpace(_)
CollapseSpace(s) ==
    IF s = <<>> THEN <<>>
    ELSE IF Head(s) \in Whitespace
         THEN <<" ">> \o CollapseSpace(LStrip(s))
         ELSE <<Head(s)>> \o CollapseSpace(Tail(s))

\* Python's `p in t` on strings
Contains(t, p) ==
    \E i \in 0..(Len(t) - Len(p)) : \A k \in 1..Len(p) : t[i + k] = p[k]

norm(s) ==
    LET s1 == LowerStr(Strip(s))
        s2 == ReplaceChar(s1, "cy_yo", "cy_e")
        s3 == RemoveChars(s2, QuoteChars)
        s4 == CharsToSpace(s3, PunctChars)
    IN  Strip(CollapseSpace(s4))

(***************************************************************************)
(* Regular expressions.  A position is the number of characters consumed.  *)
(***************************************************************************)
\* X* after any position of S, X a character class
ReStar(t, S, C) ==
    { j \in 0..Len(t) : \E i \in S : i <= j /\ \A k \in (i + 1)..j : t[k] \in C }

\* X? after any position of S
ReOpt(t, S, C) ==
    S \cup { i + 1 : i \in { j \in S : j < Len(t) /\ t[j + 1] \in C } }

\* a literal word after any position of S, under re.IGNORECASE
ReLit(t, S, w) ==
    { i + Len(w) : i \in { j \in S : j + Len(w) <= Len(t)
                                 /\ \A k \in 1..Len(w) : Lower(t[j + k]) = w[k] } }

\* one character of the class C after any position of S
ReOne(t, S, C) ==
    { i + 1 : i \in { j \in S : j < Len(t) /\ Lower(t[j + 1]) \in C } }

\* $ : the end of the string, or just before a final newline
ReEnd(t, S) ==
    Len(t) \in S \/ (Len(t) > 0 /\ t[Len(t)] = "\n" /\ (Len(t) - 1) \in S)

W_bair == <<"cy_b", "cy_a", "cy_j", "cy_r">>
W_bai == <<"cy_b", "cy_a", "cy_j">>

\* \s*$ after the number
NumOnlyTail(t, p) == ReEnd(t, ReStar(t, {p}, Whitespace))

\* \s*[-..]?\s*cy_r?\s* after the number
BairMiddle(t, p) ==
    LET a == ReStar(t, {p}, Whitespace)
        b == ReOpt(t, a, Dashes)
        c == ReStar(t, b, Whitespace)
        d == c \cup ReLit(t, c, <<"cy_r">>)
    IN  ReStar(t, d, Whitespace)

\* ... cy_b cy_a cy_j cy_r \s*$
BairTail(t, p) ==
    ReEnd(t, ReStar(t, ReLit(t, BairMiddle(t, p), W_bair), Whitespace))

\* ... cy_b cy_a cy_j [cy_a a] cy_r
BairLooseTail(t, p) ==
    ReLit(t, ReOne(t, ReLit(t, BairMiddle(t, p), W_bai), {"cy_a", "a"}),
          <<"cy_r">>) # {}

IsDigitAt(t, i) == i >= 1 /\ i <= Len(t) /\ t[i] \in Digits

\* what follows the number in the pattern named pat
TailOk(pat, t, p) ==
    CASE pat = "NUM_ONLY_RE" -> NumOnlyTail(t, p)
      [] pat = "BAIR_RE" -> BairTail(t, p)
      [] pat = "BAIR_LOOSE_RE" -> BairLooseTail(t, p)

\* (\d{1,2}) at position i followed by the tail: greedy, two digits first.
\* The result is the captured integer, or None.
CaptureAt(t, i, pat) ==
    IF IsDigitAt(t, i + 1) /\ IsDigitAt(t, i + 2) /\ TailOk(pat, t, i + 2)
    THEN Some(10 * DigitVal(t[i + 1]) + DigitVal(t[i + 2]))
    ELSE IF IsDigitAt(t, i + 1) /\ TailOk(pat, t, i + 1)
    THEN Some(DigitVal(t[i + 1]))
    ELSE None

\* pattern.match: ^\s* then the capture; the greedy \s* gives up characters
\* only when the rest fails
MatchAnchored(t, pat) ==
    LET starts == { i \in ReStar(t, {0}, Whitespace) : IsSome(CaptureAt(t, i, pat)) }
    IN  IF starts = {} THEN None ELSE CaptureAt(t, SetMax(starts), pat)

\* pattern.search: the leftmost position where the pattern matches
MatchSearch(t, pat) ==
    LET starts == { i \in 0..Len(t) : IsSome(CaptureAt(t, i, pat)) }
    IN  IF starts = {} THEN None ELSE CaptureAt(t, SetMin(starts), pat)

NUM_ONLY_RE(t) == MatchAnchored(t, "NUM_ONLY_RE")
BAIR_RE(t) == MatchAnchored(t, "BAIR_RE")
BAIR_LOOSE_RE(t) == MatchSearch(t, "BAIR_LOOSE_RE")

extract_number(text) ==
    LET t == Strip(text)
    IN  IF IsSome(NUM_ONLY_RE(t)) THEN NUM_ONLY_RE(t)
        ELSE IF IsSome(BAIR_RE(t)) THEN BAIR_RE(t)
        ELSE IF IsSome(BAIR_LOOSE_RE(t)) THEN BAIR_LOOSE_RE(t)
        ELSE None

(***************************************************************************)
(* State                                                                   *)
(***************************************************************************)
VARIABLES
    \* extract_number applied to a text
    exText, exDone, exOut,
    \* score_to_grade applied to a score
    grScore, grDone, grOut,
    \* the GPA form's slots and the messages of the last GPA handler
    numberOfCourses, currentCourseIndex, currentCredit, currentScore, courses,
    gpaReplies,
    \* the inputs a run of the GPA form has had accepted so far
    formRun,
    \* the tracker handed to the last tuition calculation, the two tables of
    \* tuition.db and the messages of the last calculation
    tuTracker, users, tuition_runs, tuReplies,
    \* the places of locations.yml and the three indexes load_places builds
    rawPlaces, ALIAS_INDEX, KIND_NUM_INDEX, ALL_PLACES,
    \* the latest message, the two location slots and the messages of the
    \* last ActionSendLocation.run
    latestText, latestIntent, pendingNumber, placeType, locReplies

exVars == <<exText, exDone, exOut>>
grVars == <<grScore, grDone, grOut>>
gpaVars == <<numberOfCourses, currentCourseIndex, currentCredit, currentScore,
             courses, gpaReplies, formRun>>
tuVars == <<tuTracker, users, tuition_runs, tuReplies>>
catVars == <<rawPlaces, ALIAS_INDEX, KIND_NUM_INDEX, ALL_PLACES>>
locVars == <<latestText, latestIntent, pendingNumber, placeType, locReplies>>
vars == <<exVars, grVars, gpaVars, tuVars, catVars, locVars>>

(***************************************************************************)
(* extract_number on bounded texts                                         *)
(***************************************************************************)
W_manai == <<"cy_m", "cy_a", "cy_n", "cy_a", "cy_j">>
W_haana == <<"cy_h", "cy_a", "cy_a", "cy_n", "cy_a">>
W_BAIR == <<"CY_b", "CY_a", "CY_j", "CY_r">>
W_baiar == <<"cy_b", "cy_a", "cy_j", "cy_a", "cy_r">>
W_baiar_latin == <<"cy_b", "cy_a", "cy_j", "a", "cy_r">>

ExPrefix == {<<>>, <<" ">>, W_manai \o <<" ">>}
ExNumber == {<<>>, <<"4">>, <<"1", "2">>, <<"0", "6">>, <<"1", "2", "3">>}
ExMiddle == {<<>>, <<" ">>, <<"-", "cy_r", " ">>, <<"u2013", "CY_r">>,
             <<"cy_r", " ">>, <<" ", "-", " ">>}
ExWord == {<<>>, W_bair, W_BAIR, W_baiar, W_baiar_latin}
ExSuffix == {<<>>, <<" ">>, <<" ">> \o W_haana}

ExTexts ==
    { a \o b \o c \o d \o e :
        a \in ExPrefix, b \in ExNumber, c \in ExMiddle, d \in ExWord, e \in ExSuffix }

ExInit ==
    /\ exText \in ExTexts
    /\ exDone = FALSE
    /\ exOut = None

ExIdle ==
    /\ exText = <<>>
    /\ exDone = FALSE
    /\ exOut = None

ExtractNumber ==
    /\ ~exDone
    /\ exDone' = TRUE
    /\ exOut' = extract_number(exText)
    /\ UNCHANGED exText

(***************************************************************************)
(* score_to_grade                                                          *)
(***************************************************************************)
GradeMap(l, g) == [letter |-> l, gpa |-> g]

\* the monotonic table a "repair" of the C- / C quality points would give
score_to_grade_swapped(s) ==
    IF s >= 900 THEN GradeMap("A+", 40)
    ELSE IF 850 <= s /\ s <= 890 THEN GradeMap("A-", 37)
    ELSE IF 800 <= s /\ s <= 840 THEN GradeMap("B+", 33)
    ELSE IF 750 <= s /\ s <= 790 THEN GradeMap("B", 30)
    ELSE IF 700 <= s /\ s <= 740 THEN GradeMap("C-", 20)
    ELSE IF 650 <= s /\ s <= 690 THEN GradeMap("C", 19)
    ELSE IF 600 <= s /\ s <= 640 THEN GradeMap("D", 10)
    ELSE GradeMap("F", 0)

\* s and the quality point are in tenths
score_to_grade(s) ==
    IF s >= 900 THEN GradeMap("A+", 40)
    ELSE IF 850 <= s /\ s <= 890 THEN GradeMap("A-", 37)
    ELSE IF 800 <= s /\ s <= 840 THEN GradeMap("B+", 33)
    ELSE IF 750 <= s /\ s <= 790 THEN GradeMap("B", 30)
    ELSE IF 700 <= s /\ s <= 740 THEN GradeMap("C-", 19)
    ELSE IF 650 <= s /\ s <= 690 THEN GradeMap("C", 20)
    ELSE IF 600 <= s /\ s <= 640 THEN GradeMap("D", 10)
    ELSE GradeMap("F", 0)

MaxScoreTenths == 1000
GradeInputs == 0..MaxScoreTenths

GrInit ==
    /\ grScore \in GradeInputs
    /\ grDone = FALSE
    /\ grOut = GradeMap("", 0)

GrIdle ==
    /\ grScore = 0
    /\ grDone = FALSE
    /\ grOut = GradeMap("", 0)

ScoreToGrade ==
    /\ ~grDone
    /\ grDone' = TRUE
    /\ grOut' = score_to_grade(grScore)
    /\ UNCHANGED grScore

(***************************************************************************)
(* GPA form: ValidateGpaForm and ActionCalculateGpa                        *)
(***************************************************************************)
MaxCourses == 2
MinCourseCount == 1
MaxCourseCount == 50
MaxCreditTenths == 300

\* A raw slot value is None when float() raises on it, else Some(tenths).
CountInputs ==
    {None, Some(-5), Some(0), Some(5), Some(10), Some(27), Some(30), Some(509),
     Some(510)}
CreditInputs == {None, Some(0), Some(20), Some(30), Some(310)}
ScoreInputs == {None, Some(-10), Some(680), Some(700), Some(749), Some(950), Some(1010)}

\* a rounding to the nearest integer instead
IntOfTenthsRounded(v) == (v + 5) \div 10

\* int(float(v)): truncation toward zero
IntOfTenths(v) == IF v >= 0 THEN v \div 10 ELSE -((-v) \div 10)

GpaMsg(k) == [kind |-> k, lines |-> <<>>, total_credits |-> 0, gpa |-> 0]

\* no run of the form: phase is one of "idle", "credit", "score", "ready",
\* "done"; n the accepted course count; credit the accepted credit of the
\* course being entered; pairs the accepted (credit, score) pairs
FormIdle == [phase |-> "idle", n |-> 0, credit |-> 0, pairs |-> <<>>]

GpaInit ==
    /\ formRun = FormIdle
    /\ numberOfCourses = None
    /\ currentCourseIndex = 1
    /\ currentCredit = None
    /\ currentScore = None
    /\ courses = <<>>
    /\ gpaReplies = <<>>

validate_number_of_courses(slot_value) ==
    IF slot_value = None
    THEN /\ gpaReplies' = <<GpaMsg("count_not_a_number")>>
         /\ numberOfCourses' = None
         /\ UNCHANGED <<currentCourseIndex, currentCredit, currentScore, courses>>
    ELSE LET n == IntOfTenths(Val(slot_value))
         IN  IF ~(MinCourseCount <= n /\ n <= MaxCourseCount)
             THEN /\ gpaReplies' = <<GpaMsg("count_out_of_range")>>
                  /\ numberOfCourses' = None
                  /\ UNCHANGED <<currentCourseIndex, currentCredit, currentScore,
                                 courses>>
             ELSE /\ gpaReplies' = <<>>
                  /\ numberOfCourses' = Some(n)
                  /\ currentCourseIndex' = 1
                  /\ courses' = <<>>
                  /\ UNCHANGED <<currentCredit, currentScore>>

\* a credit validator whose range rejection also restarts the course list
validate_current_credit_restarting(slot_value) ==
    IF slot_value = None
    THEN /\ gpaReplies' = <<GpaMsg("credit_not_a_number")>>
         /\ currentCredit' = None
         /\ UNCHANGED <<numberOfCourses, currentCourseIndex, currentScore, courses>>
    ELSE LET c == Val(slot_value)
         IN  IF ~(0 < c /\ c <= MaxCreditTenths)
             THEN /\ gpaReplies' = <<GpaMsg("credit_out_of_range")>>
                  /\ currentCredit' = None
                  /\ currentCourseIndex' = 1
                  /\ courses' = <<>>
                  /\ UNCHANGED <<numberOfCourses, currentScore>>
             ELSE /\ gpaReplies' = <<>>
                  /\ currentCredit' = Some(c)
                  /\ UNCHANGED <<numberOfCourses, currentCourseIndex, currentScore,
                                 courses>>

validate_current_credit(slot_value) ==
    IF slot_value = None
    THEN /\ gpaReplies' = <<GpaMsg("credit_not_a_number")>>
         /\ currentCredit' = None
         /\ UNCHANGED <<numberOfCourses, currentCourseIndex, currentScore, courses>>
    ELSE LET c == Val(slot_value)
         IN  IF ~(0 < c /\ c <= MaxCreditTenths)
             THEN /\ gpaReplies' = <<GpaMsg("credit_out_of_range")>>
                  /\ currentCredit' = None
                  /\ UNCHANGED <<numberOfCourses, currentCourseIndex, currentScore,
                                 courses>>
             ELSE /\ gpaReplies' = <<>>
                  /\ currentCredit' = Some(c)
                  /\ UNCHANGED <<numberOfCourses, currentCourseIndex, currentScore,
                                 courses>>

\* an append with the two fields the wrong way round
AppendCourseSwapped(cs, credit, s) == Append(cs, [credit |-> s, score |-> credit])

\* courses.append({"credit": credit, "score": s})
AppendCourse(cs, credit, s) == Append(cs, [credit |-> credit, score |-> s])

validate_current_score(slot_value) ==
    IF slot_value = None
    THEN /\ gpaReplies' = <<GpaMsg("score_not_a_number")>>
         /\ currentScore' = None
         /\ UNCHANGED <<numberOfCourses, currentCourseIndex, currentCredit, courses>>
    ELSE LET s == Val(slot_value)
         IN  IF ~(0 <= s /\ s <= MaxScoreTenths)
             THEN /\ gpaReplies' = <<GpaMsg("score_out_of_range")>>
                  /\ currentScore' = None
                  /\ UNCHANGED <<numberOfCourses, currentCourseIndex, currentCredit,
                                 courses>>
             ELSE LET n == IF IsSome(numberOfCourses) THEN Val(numberOfCourses) ELSE 0
                      idx == currentCourseIndex
                      credit == IF IsSome(currentCredit) THEN Val(currentCredit) ELSE 0
                      next_idx == idx + 1
                  IN  /\ gpaReplies' = <<>>
                      /\ courses' = AppendCourse(courses, credit, s)
                      /\ IF next_idx <= n
                         THEN /\ currentCourseIndex' = next_idx
                              /\ currentCredit' = None
                              /\ currentScore' = None
                              /\ UNCHANGED numberOfCourses
                         ELSE /\ currentScore' = Some(s)
                              /\ UNCHANGED <<numberOfCourses, currentCourseIndex,
                                             currentCredit>>

\* the loop of ActionCalculateGpa.run: acc is
\* [total_credits (tenths), total_points (hundredths), lines]
RECURSIVE GpaLoop(_, _, _)
GpaLoop(cs, i, acc) ==
    IF i > Len(cs) THEN acc
    ELSE LET cr == cs[i].credit
             sc == cs[i].score
             g == score_to_grade(sc)
         IN  GpaLoop(cs, i + 1,
                     [total_credits |-> acc.total_credits + cr,
                      total_points |-> acc.total_points + cr * g.gpa,
                      lines |-> Append(acc.lines,
                                       [i |-> i, credit |-> cr, score |-> sc,
                                        letter |-> g.letter, gpa |-> g.gpa])])

\* f"{x:.2f}" of the float points / credits, in hundredths (points in
\* hundredths, credits in tenths): the nearest hundredth.  When the exact
\* quotient lies halfway between two hundredths the float quotient's
\* representation error decides, so both neighbours are possible.
FormatGpa(points, credits) ==
    LET q == (10 * points) \div credits
        rem == (10 * points) % credits
    IN  IF 2 * rem < credits THEN {q}
        ELSE IF 2 * rem > credits THEN {q + 1}
        ELSE {q, q + 1}

\* a division by the number of courses instead of the total credit
GpaOfPerCourse(acc) ==
    IF acc.total_credits > 0
    THEN FormatGpa(acc.total_points, 10 * Len(acc.lines))
    ELSE {0}

\* gpa = total_points / total_credits if total_credits > 0 else 0.0, as the
\* message prints it
GpaOf(acc) ==
    IF acc.total_credits > 0
    THEN FormatGpa(acc.total_points, acc.total_credits)
    ELSE {0}

\* a reset that leaves the course list in place
ResetGpaSlotsKeepCourses ==
    /\ numberOfCourses' = None
    /\ currentCourseIndex' = 1
    /\ currentCredit' = None
    /\ currentScore' = None
    /\ courses' = courses

ResetGpaSlots ==
    /\ numberOfCourses' = None
    /\ currentCourseIndex' = 1
    /\ currentCredit' = None
    /\ currentScore' = None
    /\ courses' = <<>>

ActionCalculateGpa ==
    IF courses = <<>>
    THEN /\ gpaReplies' = <<GpaMsg("no_courses")>>
         /\ ResetGpaSlots
    ELSE LET acc == GpaLoop(courses, 1,
                            [total_credits |-> 0, total_points |-> 0, lines |-> <<>>])
         IN  /\ \E gpa \in GpaOf(acc) :
                    gpaReplies' = <<[kind |-> "gpa_report",
                                     lines |-> acc.lines,
                                     total_credits |-> acc.total_credits,
                                     gpa |-> gpa]>>
             /\ ResetGpaSlots

\* the handlers, in any order; the course list is kept within MaxCourses
SetCourseCount == \E v \in CountInputs : validate_number_of_courses(v)
SetCredit == \E v \in CreditInputs : validate_current_credit(v)
SetScore == Len(courses) < MaxCourses /\ \E v \in ScoreInputs : validate_current_score(v)
Finalize == ActionCalculateGpa

\* what each handler accepts
AcceptsCount(v) ==
    v # None /\ MinCourseCount <= IntOfTenths(Val(v))
             /\ IntOfTenths(Val(v)) <= MaxCourseCount
AcceptsCredit(v) == v # None /\ 0 < Val(v) /\ Val(v) <= MaxCreditTenths
AcceptsScore(v) == v # None /\ 0 <= Val(v) /\ Val(v) <= MaxScoreTenths

\* A run of the form: an accepted course count n, then n times an accepted
\* credit followed by an accepted score, rejected inputs of any of the three
\* handlers in between, and the calculation once the n pairs are in.
FormStart ==
    /\ formRun.phase \in {"idle", "done"}
    /\ \E v \in CountInputs :
          /\ AcceptsCount(v)
          /\ IntOfTenths(Val(v)) <= MaxCourses
          /\ validate_number_of_courses(v)
          /\ formRun' = [phase |-> "credit", n |-> IntOfTenths(Val(v)),
                         credit |-> 0, pairs |-> <<>>]

FormCredit ==
    /\ formRun.phase = "credit"
    /\ \E v \in CreditInputs :
          /\ AcceptsCredit(v)
          /\ validate_current_credit(v)
          /\ formRun' = [formRun EXCEPT !.phase = "score", !.credit = Val(v)]

FormScore ==
    /\ formRun.phase = "score"
    /\ \E v \in ScoreInputs :
          /\ AcceptsScore(v)
          /\ validate_current_score(v)
          /\ LET pairs == Append(formRun.pairs,
                                 [credit |-> formRun.credit, score |-> Val(v)])
             IN  formRun' = [formRun EXCEPT
                                !.pairs = pairs,
                                !.phase = IF Len(pairs) = formRun.n
                                          THEN "ready" ELSE "credit"]

FormRejected ==
    /\ formRun.phase \in {"credit", "score"}
    /\ \/ \E v \in CountInputs : ~AcceptsCount(v) /\ validate_number_of_courses(v)
       \/ \E v \in CreditInputs : ~AcceptsCredit(v) /\ validate_current_credit(v)
       \/ \E v \in ScoreInputs : ~AcceptsScore(v) /\ validate_current_score(v)
    /\ UNCHANGED formRun

FormFinalize ==
    /\ formRun.phase = "ready"
    /\ ActionCalculateGpa
    /\ formRun' = [formRun EXCEPT !.phase = "done"]

(***************************************************************************)
(* Tuition: ActionCalculateTuition and tuition.db                          *)
(***************************************************************************)
MaxRuns == 2

Senders == {"alice", "bob"}
Groups == {None, Some("2024_2025"), Some("2025_2026")}
Faculties == {None, Some("faculty_science"), Some("faculty_law")}
GeneralCreditInputs == {None, Some(100)}
MajorCreditInputs == {None, Some(50)}

\* pricing.yml: group -> faculty -> {general, major}; a rate is None when
\* float() raises on it.  "2025_2026" has no entry.
_load_pricing ==
    { [group |-> "2024_2025", faculty |-> "faculty_science",
       general |-> Some(1000), major |-> Some(2000)],
      [group |-> "2024_2025", faculty |-> "faculty_law",
       general |-> Some(1000), major |-> None] }

\* _to_float(tracker.get_slot(...)) or 0.0, in tenths
CreditOrZero(slot) == IF IsSome(slot) THEN Val(slot) ELSE 0

Trackers ==
    [sender_id : Senders, admission_group : Groups, faculty : Faculties,
     general_credits : GeneralCreditInputs, major_credits : MajorCreditInputs]

TuMsg(k, t) == [kind |-> k, total |-> t]

\* an INSERT without OR IGNORE and without the UNIQUE constraint
ensure_user_always_insert(us, sender_id) ==
    [users |-> Append(us, [id |-> Len(us) + 1, sender_id |-> sender_id]),
     id |-> Len(us) + 1]

\* INSERT OR IGNORE INTO users ...; SELECT id FROM users WHERE sender_id = ?
\* Rows are never deleted, so AUTOINCREMENT gives Len(us) + 1.
ensure_user(us, sender_id) ==
    LET inserted ==
            IF \E i \in 1..Len(us) : us[i].sender_id = sender_id
            THEN us
            ELSE Append(us, [id |-> Len(us) + 1, sender_id |-> sender_id])
        row == CHOOSE i \in 1..Len(inserted) : inserted[i].sender_id = sender_id
    IN  [users |-> inserted, id |-> inserted[row].id]

\* the two rates exchanged
TuitionTotalRatesSwapped(gen_cr, gen_rate, maj_cr, maj_rate) ==
    gen_cr * maj_rate + maj_cr * gen_rate

\* the computed total, in tenths
TuitionTotal(gen_cr, gen_rate, maj_cr, maj_rate) ==
    gen_cr * gen_rate + maj_cr * maj_rate

\* the messages of a run whose persistence failed, were the exception to
\* end the turn
RepliesAfterPersistAborting(failed, total) ==
    IF failed THEN <<TuMsg("db_save_failed", 0)>>
    ELSE <<TuMsg("total", total)>>

\* the except branch reports, then the run goes on to the total message
RepliesAfterPersist(failed, total) ==
    IF failed THEN <<TuMsg("db_save_failed", 0), TuMsg("total", total)>>
    ELSE <<TuMsg("total", total)>>

TuInit ==
    /\ tuTracker = [sender_id |-> "alice", admission_group |-> None,
                    faculty |-> None, general_credits |-> None,
                    major_credits |-> None]
    /\ users = <<>>
    /\ tuition_runs = <<>>
    /\ tuReplies = <<>>

\* ActionCalculateTuition.run on the tracker tr; db_fails is whether the
\* with-block raises (the connection then rolls the transaction back)
ActionCalculateTuition(tr, db_fails) ==
    LET pricing == _load_pricing
        group == tr.admission_group
        faculty == tr.faculty
        gen_cr == CreditOrZero(tr.general_credits)
        maj_cr == CreditOrZero(tr.major_credits)
    IN  /\ tuTracker' = tr
        /\ IF ~IsSome(group) \/ ~IsSome(faculty)
           THEN /\ tuReplies' = <<TuMsg("missing_selection", 0)>>
                /\ UNCHANGED <<users, tuition_runs>>
           ELSE LET found == { r \in pricing : r.group = Val(group)
                                             /\ r.faculty = Val(faculty)
                                             /\ IsSome(r.general)
                                             /\ IsSome(r.major) }
                IN  IF found = {}
                    THEN /\ tuReplies' = <<TuMsg("pricing_not_found", 0)>>
                         /\ UNCHANGED <<users, tuition_runs>>
                    ELSE LET rates == CHOOSE r \in found : TRUE
                             gen_rate == Val(rates.general)
                             maj_rate == Val(rates.major)
                             total == TuitionTotal(gen_cr, gen_rate, maj_cr, maj_rate)
                             eu == ensure_user(users, tr.sender_id)
                         IN  /\ IF db_fails
                                THEN UNCHANGED <<users, tuition_runs>>
                                ELSE /\ users' = eu.users
                                     /\ tuition_runs' =
                                            Append(tuition_runs,
                                                   [id |-> Len(tuition_runs) + 1,
                                                    user_id |-> eu.id,
                                                    admission_group |-> Val(group),
                                                    faculty |-> Val(faculty),
                                                    general_credits |-> gen_cr,
                                                    major_credits |-> maj_cr,
                                                    general_rate |-> gen_rate,
                                                    major_rate |-> maj_rate,
                                                    total_tuition |-> total])
                             /\ tuReplies' = RepliesAfterPersist(db_fails, total)

CalculateTuition ==
    /\ Len(tuition_runs) < MaxRuns
    /\ \E tr \in Trackers, db_fails \in BOOLEAN : ActionCalculateTuition(tr, db_fails)

(***************************************************************************)
(* Location helpers                                                        *)
(***************************************************************************)
\* a table that lost its second pair
FORBIDDEN_dorm_only == {<<"dorm", 4>>}

FORBIDDEN == {<<"dorm", 4>>, <<"class", 6>>}

W_dotuur == <<"cy_d", "cy_o", "cy_t", "cy_u", "cy_u", "cy_r">>
W_dorm == <<"d", "o", "r", "m">>
W_hicheel == <<"cy_h", "cy_i", "cy_ch", "cy_eh", "cy_eh", "cy_l">>
W_hicheeliin == W_hicheel \o <<"cy_i", "cy_j", "cy_n">>
W_surguuliin == <<"cy_s", "cy_u", "cy_r", "cy_g", "cy_u", "cy_u", "cy_l",
                  "cy_i", "cy_j", "cy_n">>
W_academic == <<"a", "c", "a", "d", "e", "m", "i", "c">>
W_bairshluud == <<"cy_b", "cy_a", "cy_j", "cy_r", "cy_sh", "cy_l", "cy_u",
                  "cy_u", "cy_d">>
W_bairshiluud == <<"cy_b", "cy_a", "cy_j", "cy_r", "cy_sh", "cy_i", "cy_l",
                   "cy_u", "cy_u", "cy_d">>
W_jagsaalt == <<"cy_zh", "cy_a", "cy_g", "cy_s", "cy_a", "cy_a", "cy_l", "cy_t">>
W_locations == <<"l", "o", "c", "a", "t", "i", "o", "n", "s">>
W_list == <<"l", "i", "s", "t">>

\* the kind, or None
detect_kind(text) ==
    LET t == norm(text)
    IN  IF Contains(t, W_dotuur) \/ Contains(t, W_dorm) THEN Some("dorm")
        ELSE IF Contains(t, W_hicheel) \/ Contains(t, W_hicheeliin)
                \/ Contains(t, W_surguuliin) \/ Contains(t, W_academic)
        THEN Some("class")
        ELSE None

is_list_request(text) ==
    norm(text) \in {W_bairshluud, W_jagsaalt, W_locations, W_list, W_bairshiluud}

\* str(num) for the numbers \d{1,2} captures
IntToStr(n) ==
    IF n < 10 THEN <<DigitChar(n)>>
    ELSE <<DigitChar(n \div 10), DigitChar(n % 10)>>

\* int(s) on a string of digits; None when int() raises
RECURSIVE DigitsValue(_, _)
DigitsValue(s, acc) ==
    IF s = <<>> THEN acc ELSE DigitsValue(Tail(s), 10 * acc + DigitVal(Head(s)))

ParseInt(s) ==
    LET t == Strip(s)
    IN  IF t # <<>> /\ \A i \in 1..Len(t) : t[i] \in Digits
        THEN Some(DigitsValue(t, 0))
        ELSE None

(***************************************************************************)
(* An insertion-ordered dict: a sequence of [key, value], keys distinct    *)
(***************************************************************************)
DictHas(d, k) == \E i \in 1..Len(d) : d[i].key = k

DictGet(d, k) ==
    IF DictHas(d, k)
    THEN Some(d[CHOOSE i \in 1..Len(d) : d[i].key = k].value)
    ELSE None

\* d[k] = v: an existing key keeps its place
DictPut(d, k, v) ==
    IF DictHas(d, k)
    THEN [i \in 1..Len(d) |-> IF d[i].key = k THEN [key |-> k, value |-> v] ELSE d[i]]
    ELSE Append(d, [key |-> k, value |-> v])

(***************************************************************************)
(* load_places                                                             *)
(***************************************************************************)
\* A raw entry of locations.yml: is_dict is whether it is a mapping; kind,
\* title and url are "" when absent; number is None or Some(int).
RawPlace(k, n, t, u, a) ==
    [is_dict |-> TRUE, kind |-> k, number |-> n, title |-> t, url |-> u,
     aliases |-> a]

\* the filter without the FORBIDDEN test
KeepPlaceUnfiltered(p) == p.is_dict

\* the first loop's two `continue` tests
KeepPlace(p) ==
    /\ p.is_dict
    /\ ~(IsSome(p.number) /\ <<p.kind, Val(p.number)>> \in FORBIDDEN)

RECURSIVE FilterPlaces(_)
FilterPlaces(raw) ==
    IF raw = <<>> THEN <<>>
    ELSE IF KeepPlace(Head(raw)) THEN <<Head(raw)>> \o FilterPlaces(Tail(raw))
    ELSE FilterPlaces(Tail(raw))

RECURSIVE AddAliases(_, _, _)
AddAliases(idx, aliases, p) ==
    IF aliases = <<>> THEN idx
    ELSE AddAliases(DictPut(idx, norm(Head(aliases)), p), Tail(aliases), p)

RECURSIVE BuildIndexes(_, _, _)
BuildIndexes(places, alias_index, kind_num_index) ==
    IF places = <<>>
    THEN [alias_index |-> alias_index, kind_num_index |-> kind_num_index]
    ELSE LET p == Head(places)
         IN  BuildIndexes(
                 Tail(places),
                 AddAliases(alias_index, p.aliases, p),
                 IF p.kind # "" /\ IsSome(p.number)
                 THEN DictPut(kind_num_index, <<p.kind, Val(p.number)>>, p)
                 ELSE kind_num_index)

load_places(raw_places) ==
    LET places == FilterPlaces(raw_places)
        idx == BuildIndexes(places, <<>>, <<>>)
    IN  [alias_index |-> idx.alias_index,
         kind_num_index |-> idx.kind_num_index,
         places |-> places]

(***************************************************************************)
(* ActionSendLocation                                                      *)
(***************************************************************************)
NoPlace ==
    [is_dict |-> FALSE, kind |-> "", number |-> None, title |-> "", url |-> "",
     aliases |-> <<>>]

LocMsg(k, p, ts) == [kind |-> k, place |-> p, titles |-> ts]

\* the message of say_place: the title with the url, or with the notice
\* that the link is missing
say_place(place) ==
    IF place.url # ""
    THEN LocMsg("place", place, <<>>)
    ELSE LocMsg("place_link_missing", place, <<>>)

\* a list that prints a line for every place, titled or not
ListTitlesAll(places) == [i \in 1..Len(places) |-> places[i].title]

\* the titles the list request prints, in the order of _ALL_PLACES
RECURSIVE ListTitles(_)
ListTitles(places) ==
    IF places = <<>> THEN <<>>
    ELSE IF Head(places).title # ""
         THEN <<Head(places).title>> \o ListTitles(Tail(places))
         ELSE ListTitles(Tail(places))

\* a loop that keeps the last alias found instead of returning the first
RECURSIVE LastAliasIn(_, _)
LastAliasIn(alias_index, ntext) ==
    IF alias_index = <<>> THEN None
    ELSE LET last == alias_index[Len(alias_index)]
         IN  IF last.key # <<>> /\ Contains(ntext, last.key)
             THEN Some(last.value)
             ELSE LastAliasIn(SubSeq(alias_index, 1, Len(alias_index) - 1), ntext)

\* the loop over _ALIAS_INDEX.items(): the first alias that is non-empty
\* and inside ntext, or None
RECURSIVE FirstAliasIn(_, _)
FirstAliasIn(alias_index, ntext) ==
    IF alias_index = <<>> THEN None
    ELSE IF Head(alias_index).key # <<>> /\ Contains(ntext, Head(alias_index).key)
         THEN Some(Head(alias_index).value)
         ELSE FirstAliasIn(Tail(alias_index), ntext)

\* a test that never sees the slot
TruthyNever(slot) == FALSE

\* Python truth of the pending_number slot
Truthy(slot) == IsSome(slot) /\ Val(slot) # <<>>

\* what a run returns: its messages and the slot values after its SlotSet
\* events
Outcome(replies, pending_number, place_type) ==
    [replies |-> replies, pending_number |-> pending_number,
     place_type |-> place_type]

\* the continuation that forgets to clear pending_number
ContinueKindChoiceKeepPending(dk, pending_number, place_type) ==
    LET chosen_kind == IF IsSome(dk) THEN dk ELSE place_type
        num == ParseInt(Val(pending_number))
    IN  IF ~IsSome(chosen_kind)
        THEN Outcome(<<LocMsg("ask_kind_again", NoPlace, <<>>)>>,
                     pending_number, place_type)
        ELSE IF IsSome(num) /\ <<Val(chosen_kind), Val(num)>> \in FORBIDDEN
        THEN Outcome(<<LocMsg("not_available", NoPlace, <<>>)>>,
                     pending_number, chosen_kind)
        ELSE IF IsSome(num) /\ IsSome(DictGet(KIND_NUM_INDEX, <<Val(chosen_kind), Val(num)>>))
        THEN Outcome(<<say_place(Val(DictGet(KIND_NUM_INDEX,
                                             <<Val(chosen_kind), Val(num)>>)))>>,
                     None, chosen_kind)
        ELSE Outcome(<<LocMsg("not_found_by_number", NoPlace, <<>>)>>,
                     None, place_type)

\* the branch `latest_intent == "choose_place_type" and pending_number`;
\* dk is detect_kind(text)
ContinueKindChoice(dk, pending_number, place_type) ==
    LET chosen_kind ==
            IF IsSome(dk) THEN dk
            ELSE IF place_type \in {Some("class"), Some("dorm")} THEN place_type
            ELSE None
        num == ParseInt(Val(pending_number))
    IN  IF ~IsSome(chosen_kind)
        THEN Outcome(<<LocMsg("ask_kind_again", NoPlace, <<>>)>>,
                     pending_number, place_type)
        ELSE IF IsSome(num) /\ <<Val(chosen_kind), Val(num)>> \in FORBIDDEN
        THEN Outcome(<<LocMsg("not_available", NoPlace, <<>>)>>,
                     None, chosen_kind)
        ELSE IF IsSome(num) /\ IsSome(DictGet(KIND_NUM_INDEX, <<Val(chosen_kind), Val(num)>>))
        THEN Outcome(<<say_place(Val(DictGet(KIND_NUM_INDEX,
                                             <<Val(chosen_kind), Val(num)>>)))>>,
                     None, chosen_kind)
        ELSE Outcome(<<LocMsg("not_found_by_number", NoPlace, <<>>)>>,
                     None, place_type)

\* a resolver whose not-found reply to a number and kind also writes the
\* two slots
ResolveTextNotFoundClears(facts, pending_number, place_type) ==
    LET kind == facts.kind
        num == facts.num
        ntext == facts.ntext
    IN  IF facts.is_list
        THEN Outcome(<<LocMsg("list", NoPlace, ListTitles(ALL_PLACES))>>,
                     pending_number, place_type)
        ELSE IF IsSome(num) /\ ~IsSome(kind) /\ facts.phrase
        THEN Outcome(<<LocMsg("utter_ask_place_type", NoPlace, <<>>)>>,
                     Some(IntToStr(Val(num))), place_type)
        ELSE IF IsSome(num) /\ kind \in {Some("class"), Some("dorm")}
        THEN IF <<Val(kind), Val(num)>> \in FORBIDDEN
             THEN Outcome(<<LocMsg("not_available", NoPlace, <<>>)>>, None, kind)
             ELSE IF IsSome(DictGet(KIND_NUM_INDEX, <<Val(kind), Val(num)>>))
             THEN Outcome(<<say_place(Val(DictGet(KIND_NUM_INDEX,
                                                  <<Val(kind), Val(num)>>)))>>,
                          None, kind)
             ELSE Outcome(<<LocMsg("not_found_by_number", NoPlace, <<>>)>>,
                          None, kind)
        ELSE IF IsSome(DictGet(ALIAS_INDEX, ntext))
        THEN Outcome(<<say_place(Val(DictGet(ALIAS_INDEX, ntext)))>>,
                     pending_number, place_type)
        ELSE IF IsSome(FirstAliasIn(ALIAS_INDEX, ntext))
        THEN Outcome(<<say_place(Val(FirstAliasIn(ALIAS_INDEX, ntext)))>>,
                     pending_number, place_type)
        ELSE Outcome(<<LocMsg("not_found", NoPlace, <<>>)>>,
                     pending_number, place_type)

\* the rest of run, from the list request down.  facts holds what the
\* helpers return on text: [kind |-> detect_kind(text),
\* num |-> extract_number(text), ntext |-> norm(text),
\* is_list |-> is_list_request(text), phrase |-> whether NUM_ONLY_RE,
\* BAIR_RE or BAIR_LOOSE_RE matches text]
ResolveText(facts, pending_number, place_type) ==
    LET kind == facts.kind
        num == facts.num
        ntext == facts.ntext
    IN  IF facts.is_list
        THEN Outcome(<<LocMsg("list", NoPlace, ListTitles(ALL_PLACES))>>,
                     pending_number, place_type)
        ELSE IF IsSome(num) /\ ~IsSome(kind) /\ facts.phrase
        THEN Outcome(<<LocMsg("utter_ask_place_type", NoPlace, <<>>)>>,
                     Some(IntToStr(Val(num))), place_type)
        ELSE IF IsSome(num) /\ kind \in {Some("class"), Some("dorm")}
        THEN IF <<Val(kind), Val(num)>> \in FORBIDDEN
             THEN Outcome(<<LocMsg("not_available", NoPlace, <<>>)>>, None, kind)
             ELSE IF IsSome(DictGet(KIND_NUM_INDEX, <<Val(kind), Val(num)>>))
             THEN Outcome(<<say_place(Val(DictGet(KIND_NUM_INDEX,
                                                  <<Val(kind), Val(num)>>)))>>,
                          None, kind)
             ELSE Outcome(<<LocMsg("not_found_by_number", NoPlace, <<>>)>>,
                          pending_number, place_type)
        ELSE IF IsSome(DictGet(ALIAS_INDEX, ntext))
        THEN Outcome(<<say_place(Val(DictGet(ALIAS_INDEX, ntext)))>>,
                     pending_number, place_type)
        ELSE IF IsSome(FirstAliasIn(ALIAS_INDEX, ntext))
        THEN Outcome(<<say_place(Val(FirstAliasIn(ALIAS_INDEX, ntext)))>>,
                     pending_number, place_type)
        ELSE Outcome(<<LocMsg("not_found", NoPlace, <<>>)>>,
                     pending_number, place_type)

\* the helpers applied to the stripped message text
TextFacts(text) ==
    [kind |-> detect_kind(text),
     num |-> extract_number(text),
     ntext |-> norm(text),
     is_list |-> is_list_request(text),
     phrase |-> IsSome(NUM_ONLY_RE(text)) \/ IsSome(BAIR_RE(text))
                \/ IsSome(BAIR_LOOSE_RE(text))]

\* a run that answers a list request before it looks at the continuation
run_list_first(facts, latest_intent, pending_number, place_type) ==
    IF facts.is_list
    THEN ResolveText(facts, pending_number, place_type)
    ELSE IF latest_intent = "choose_place_type" /\ Truthy(pending_number)
    THEN ContinueKindChoice(facts.kind, pending_number, place_type)
    ELSE ResolveText(facts, pending_number, place_type)

\* ActionSendLocation.run; facts is TextFacts of the stripped message text
run(facts, latest_intent, pending_number, place_type) ==
    IF latest_intent = "choose_place_type" /\ Truthy(pending_number)
    THEN ContinueKindChoice(facts.kind, pending_number, place_type)
    ELSE ResolveText(facts, pending_number, place_type)

(***************************************************************************)
(* Places, texts and intents the location specification draws from         *)
(***************************************************************************)
MaxRawPlaces == 2

A_lib == <<"l", "i", "b">>
A_gym == <<"g", "y", "m">>
A_d4 == <<"d", "4">>
A_Lib_quoted == <<"\"", "L", "i", "b", "\"", " ">>
\* an alias of quotes and a dot: its normal form is empty
A_quotes == <<"\"", ".", "\"">>

R_dorm4 == RawPlace("dorm", Some(4), "Dorm 4", "http://d4", <<A_d4, A_gym>>)
R_class6 == RawPlace("class", Some(6), "Class 6", "", <<A_lib>>)
R_dorm5 == RawPlace("dorm", Some(5), "Dorm 5", "http://d5", <<A_gym>>)
R_class4 == RawPlace("class", Some(4), "", "", <<A_Lib_quoted, A_d4>>)
R_library == RawPlace("", None, "Library", "http://lib", <<A_quotes, A_lib>>)
R_not_a_dict == NoPlace

RawPool == {R_dorm4, R_class6, R_dorm5, R_class4, R_library, R_not_a_dict}

RECURSIVE SeqsUpTo(_, _)
SeqsUpTo(S, n) ==
    IF n = 0 THEN {<<>>}
    ELSE LET shorter == SeqsUpTo(S, n - 1)
         IN  shorter \cup { Append(q, x) : q \in shorter, x \in S }

RawLists == SeqsUpTo(RawPool, MaxRawPlaces)

T_4 == <<"4">>
T_04 == <<" ", "0", "4", " ">>
T_5 == <<"5">>
T_6 == <<"6">>
T_4_bair == <<"4", "-", "cy_r", " ">> \o W_bair
T_dotuur_bair == W_dotuur \o <<" ">> \o W_bair
T_hicheeliin_bair == W_hicheeliin \o <<" ">> \o W_bair
T_dorm_4_baiar == W_dorm \o <<" ", "4", " ">> \o W_baiar
T_dorm_5_baiar == W_dorm \o <<" ", "5", " ">> \o W_baiar
T_dorm_7_baiar == W_dorm \o <<" ", "7", " ">> \o W_baiar
T_hicheel_6_baiar == W_hicheel \o <<" ", "6", "-", "cy_r", " ">> \o W_baiar
T_List == <<"L", "i", "s", "t", ".">>
T_lib == A_lib
T_d4 == A_d4
T_gym_lib == <<"t", "h", "e", " ">> \o A_gym \o <<" ">> \o A_lib
T_zzz == <<"z", "z", "z">>
T_dots == <<".", ".">>

LocTexts ==
    { T_4, T_04, T_5, T_6, T_4_bair, T_dotuur_bair, T_hicheeliin_bair,
      T_dorm_4_baiar, T_dorm_5_baiar, T_dorm_7_baiar, T_hicheel_6_baiar,
      T_List, T_lib, T_d4, T_gym_lib, T_zzz, T_dots }

Intents == {"choose_place_type", "ask_location"}

CatInit ==
    /\ rawPlaces \in RawLists
    /\ ALIAS_INDEX = load_places(rawPlaces).alias_index
    /\ KIND_NUM_INDEX = load_places(rawPlaces).kind_num_index
    /\ ALL_PLACES = load_places(rawPlaces).places

CatIdle ==
    /\ rawPlaces = <<>>
    /\ ALIAS_INDEX = <<>>
    /\ KIND_NUM_INDEX = <<>>
    /\ ALL_PLACES = <<>>

LocInit ==
    /\ latestText = <<>>
    /\ latestIntent = ""
    /\ pendingNumber = None
    /\ placeType = None
    /\ locReplies = <<>>

\* the helpers on every text of LocTexts, computed once
LocTextFacts == [t \in LocTexts |-> TextFacts(Strip(t))]

SendLocation ==
    \E t \in LocTexts, i \in Intents :
        LET out == run(LocTextFacts[t], i, pendingNumber, placeType)
        IN  /\ latestText' = t
            /\ latestIntent' = i
            /\ pendingNumber' = out.pending_number
            /\ placeType' = out.place_type
            /\ locReplies' = out.replies

(***************************************************************************)
(* Specifications                                                          *)
(***************************************************************************)
\* extract_number on every text of ExTexts
ExNext == ExtractNumber /\ UNCHANGED <<grVars, gpaVars, tuVars, catVars, locVars>>
InitExtract == ExInit /\ GrIdle /\ GpaInit /\ TuInit /\ CatIdle /\ LocInit
SpecExtract == InitExtract /\ [][ExNext]_vars

\* score_to_grade on every score of GradeInputs
GrNext == ScoreToGrade /\ UNCHANGED <<exVars, gpaVars, tuVars, catVars, locVars>>
InitGrade == ExIdle /\ GrInit /\ GpaInit /\ TuInit /\ CatIdle /\ LocInit
SpecGrade == InitGrade /\ [][GrNext]_vars

\* the GPA form's handlers in any order
GpaRest == UNCHANGED <<exVars, grVars, tuVars, catVars, locVars, formRun>>
GpaNext ==
    \/ SetCourseCount /\ GpaRest
    \/ SetCredit /\ GpaRest
    \/ SetScore /\ GpaRest
    \/ Finalize /\ GpaRest
InitGpa == ExIdle /\ GrIdle /\ GpaInit /\ TuInit /\ CatIdle /\ LocInit
SpecGpa == InitGpa /\ [][GpaNext]_vars

\* runs of the GPA form, one after the other
FormRest == UNCHANGED <<exVars, grVars, tuVars, catVars, locVars>>
FormNext ==
    \/ FormStart /\ FormRest
    \/ FormCredit /\ FormRest
    \/ FormScore /\ FormRest
    \/ FormRejected /\ FormRest
    \/ FormFinalize /\ FormRest
SpecGpaForm == InitGpa /\ [][FormNext]_vars

\* tuition calculations of any senders
TuNext == CalculateTuition /\ UNCHANGED <<exVars, grVars, gpaVars, catVars, locVars>>
InitTuition == ExIdle /\ GrIdle /\ GpaInit /\ TuInit /\ CatIdle /\ LocInit
SpecTuition == InitTuition /\ [][TuNext]_vars

\* resolver turns over the catalog of any raw list of RawLists
LocNext == SendLocation /\ UNCHANGED <<exVars, grVars, gpaVars, tuVars, catVars>>
InitLoc == ExIdle /\ GrIdle /\ GpaInit /\ TuInit /\ CatInit /\ LocInit
SpecLoc == InitLoc /\ [][LocNext]_vars

(***************************************************************************)
(* Properties                                                              *)
(***************************************************************************)
\* the integer a text spells when it is one or two digits between
\* whitespace, else None
BareNumber(t) ==
    LET u == Strip(t)
    IN  IF Len(u) \in 1..2 /\ \A i \in 1..Len(u) : u[i] \in Digits
        THEN Some(DigitsValue(u, 0))
        ELSE None

AskKindReply == <<LocMsg("utter_ask_place_type", NoPlace, <<>>)>>
NotAvailableReply == <<LocMsg("not_available", NoPlace, <<>>)>>

\* the turn taken is a bare number and the resolver asks for the kind
C1_Prompted ==
    /\ locReplies' = AskKindReply
    /\ pendingNumber' = Some(IntToStr(Val(BareNumber(latestText'))))
    /\ placeType' = placeType

\* the turn before was a bare number n that set pendingNumber, and the
\* turn taken chooses a kind k with (k, n) forbidden
C1_SecondTurn ==
    ( /\ IsSome(BareNumber(latestText))
      /\ locReplies = AskKindReply
      /\ pendingNumber = Some(IntToStr(Val(BareNumber(latestText))))
      /\ latestIntent' = "choose_place_type"
      /\ IsSome(detect_kind(latestText'))
      /\ <<Val(detect_kind(latestText')), Val(BareNumber(latestText))>> \in FORBIDDEN )
    => ( /\ locReplies' = NotAvailableReply
         /\ pendingNumber' = None
         /\ placeType' = detect_kind(latestText') )

\* C1 as claimed: every turn whose text is a bare number n is answered by
\* the prompt for a kind, with pendingNumber = str(n) and placeType kept;
\* and a following choose_place_type turn naming a kind k with (k, n)
\* forbidden is answered not-available with pendingNumber None, placeType k.
C1_RoundTripAnyTurn ==
    [][ /\ IsSome(BareNumber(latestText')) => C1_Prompted
        /\ C1_SecondTurn ]_vars

\* C1 amended: the same, for a bare-number turn that is not itself a
\* disambiguation continuation (intent choose_place_type while
\* pendingNumber is set), which the resolver decides first.
C1_RoundTrip ==
    [][ /\ ( /\ IsSome(BareNumber(latestText'))
             /\ ~(latestIntent' = "choose_place_type" /\ Truthy(pendingNumber)) )
           => C1_Prompted
        /\ C1_SecondTurn ]_vars

\* "4", then "dotuur bair" as the chosen kind: not available, slot cleared
C1_Witness ==
    /\ latestText = T_dotuur_bair
    /\ latestIntent = "choose_place_type"
    /\ locReplies = NotAvailableReply
    /\ pendingNumber = None
    /\ placeType = Some("dorm")

IsForbiddenPlace(p) ==
    p.is_dict /\ IsSome(p.number) /\ <<p.kind, Val(p.number)>> \in FORBIDDEN

\* C2: whatever the raw list, no record with (kind, number) = (dorm, 4) or
\* (class, 6) is in the list of all places, in the alias index or in the
\* kind-number index, and the lookups of (dorm, 4) and (class, 6) give none.
C2_ForbiddenExcluded ==
    /\ \A i \in 1..Len(ALL_PLACES) : ~IsForbiddenPlace(ALL_PLACES[i])
    /\ \A i \in 1..Len(ALIAS_INDEX) : ~IsForbiddenPlace(ALIAS_INDEX[i].value)
    /\ \A i \in 1..Len(KIND_NUM_INDEX) : ~IsForbiddenPlace(KIND_NUM_INDEX[i].value)
    /\ \A k \in FORBIDDEN : DictGet(KIND_NUM_INDEX, k) = None
    /\ \A i \in 1..Len(rawPlaces) :
          IsForbiddenPlace(rawPlaces[i]) =>
              \A j \in 1..Len(rawPlaces[i].aliases) :
                  DictGet(ALIAS_INDEX, norm(rawPlaces[i].aliases[j]))
                      # Some(rawPlaces[i])

\* dorm 4 is in the raw list with aliases, and only dorm 5 is loaded
C2_Witness ==
    /\ rawPlaces = <<R_dorm4, R_dorm5>>
    /\ ALL_PLACES = <<R_dorm5>>
    /\ DictGet(ALIAS_INDEX, A_gym) = Some(R_dorm5)

\* C3 as claimed: the course list is as long as currentCourseIndex - 1
\* until the final score is submitted (the form then keeps currentScore),
\* and as long as numberOfCourses after it.
C3_CoursesLength ==
    IF IsSome(currentScore)
    THEN IsSome(numberOfCourses) /\ Len(courses) = Val(numberOfCourses)
    ELSE Len(courses) = currentCourseIndex - 1

\* the spellings of n in a building phrase
NumberForms(n) ==
    {IntToStr(n)} \cup (IF n < 10 THEN {<<"0", DigitChar(n)>>} ELSE {})

\* "<n>[-][cy_r][ ]bair"
PhraseForms(n) ==
    { a \o b \o c \o d \o W_bair :
        a \in NumberForms(n), b \in {<<>>, <<"-">>}, c \in {<<>>, <<"cy_r">>},
        d \in {<<>>, <<" ">>} }

\* t holds a building phrase of n as whole words, with a word before or
\* after it
HasBuildingPhrase(t, n) ==
    \E i \in 1..Len(t), j \in 1..Len(t) :
        /\ i <= j
        /\ SubSeq(t, i, j) \in PhraseForms(n)
        /\ (i = 1 \/ t[i - 1] \in Whitespace)
        /\ (j = Len(t) \/ t[j + 1] \in Whitespace)
        /\ \E k \in (1..(i - 1)) \cup ((j + 1)..Len(t)) : t[k] \notin Whitespace

MaxNumber == 99

\* C4 as claimed: extract_number gives n on a bare 1-2 digit number n, and
\* gives n on every text holding a building phrase of n among other words.
C4_ExtractNumber ==
    exDone =>
        /\ IsSome(BareNumber(exText)) => exOut = BareNumber(exText)
        /\ \A n \in 0..MaxNumber : HasBuildingPhrase(exText, n) => exOut = Some(n)

IsGpaReport(replies) == replies # <<>> /\ replies[1].kind = "gpa_report"

\* C5 as claimed: in a GPA report a course of score 70 is C- (1.9) and a
\* course of score 74.9, which the form accepted, is C- (1.9) too.
C5_SeventyFourNine ==
    IsGpaReport(gpaReplies) =>
        \A i \in 1..Len(gpaReplies[1].lines) :
            gpaReplies[1].lines[i].score \in {700, 749} =>
                /\ gpaReplies[1].lines[i].letter = "C-"
                /\ gpaReplies[1].lines[i].gpa = 19

\* the breakpoint table: inclusive bands of integer scores
GradeBands ==
    { [lo |-> 90, hi |-> 100, letter |-> "A+", gpa |-> 40],
      [lo |-> 85, hi |-> 89, letter |-> "A-", gpa |-> 37],
      [lo |-> 80, hi |-> 84, letter |-> "B+", gpa |-> 33],
      [lo |-> 75, hi |-> 79, letter |-> "B", gpa |-> 30],
      [lo |-> 70, hi |-> 74, letter |-> "C-", gpa |-> 19],
      [lo |-> 65, hi |-> 69, letter |-> "C", gpa |-> 20],
      [lo |-> 60, hi |-> 64, letter |-> "D", gpa |-> 10],
      [lo |-> 0, hi |-> 59, letter |-> "F", gpa |-> 0] }

\* C6: for every integer score 0..100 score_to_grade gives the letter and
\* the quality point of the band of the table the score lies in.
C6_IntegerScores ==
    (grDone /\ grScore % 10 = 0) =>
        \E b \in GradeBands :
            /\ b.lo <= grScore \div 10 /\ grScore \div 10 <= b.hi
            /\ grOut = GradeMap(b.letter, b.gpa)

\* 72 is graded C- with 1.9, below the 2.0 of C
C6_Witness ==
    /\ grDone
    /\ grScore = 720
    /\ grOut = GradeMap("C-", 19)
    /\ score_to_grade(670).gpa = 20

RECURSIVE SumCredits(_)
SumCredits(cs) ==
    IF cs = <<>> THEN 0 ELSE cs[Len(cs)].credit + SumCredits(SubSeq(cs, 1, Len(cs) - 1))

\* credit (tenths) times quality point (tenths), summed: hundredths
RECURSIVE SumPoints(_)
SumPoints(cs) ==
    IF cs = <<>> THEN 0
    ELSE cs[Len(cs)].credit * score_to_grade(cs[Len(cs)].score).gpa
         + SumPoints(SubSeq(cs, 1, Len(cs) - 1))

ExampleCourses == <<[credit |-> 30, score |-> 950], [credit |-> 20, score |-> 680]>>

\* the report of the step taken gives, to two decimals, the sum of
\* credit times quality point over the sum of credits of the course list
\* the step started from, and 0 when the total credit is 0
C7_WeightedMean ==
    LET r == gpaReplies'[1]
        tc == SumCredits(courses)
        tp == SumPoints(courses)
    IN  /\ r.total_credits = tc
        /\ tc > 0 => ( 2 * (100 * r.gpa * tc - 1000 * tp) <= 100 * tc
                       /\ 2 * (1000 * tp - 100 * r.gpa * tc) <= 100 * tc )
        /\ tc = 0 => r.gpa = 0

C7_ExampleGrades ==
    LET r == gpaReplies'[1]
    IN  /\ Len(r.lines) = 2
        /\ r.lines[1].letter = "A+" /\ r.lines[1].gpa = 40
        /\ r.lines[2].letter = "C" /\ r.lines[2].gpa = 20
        /\ r.total_credits = 50

\* C7 as claimed: finalize reports the credit-weighted mean (0 at total
\* credit 0), and for [(3, 95), (2, 68)] A+ (4.0), C (2.0), total credit 5
\* and GPA 2.80.
C7_GpaAsClaimed ==
    [][ IsGpaReport(gpaReplies') =>
            /\ C7_WeightedMean
            /\ courses = ExampleCourses =>
                   (C7_ExampleGrades /\ gpaReplies'[1].gpa = 280) ]_vars

\* C7 amended: the same, with GPA 3.20 for [(3, 95), (2, 68)]:
\* (3 * 4.0 + 2 * 2.0) / 5 = 16 / 5.
C7_Gpa ==
    [][ IsGpaReport(gpaReplies') =>
            /\ C7_WeightedMean
            /\ courses = ExampleCourses =>
                   (C7_ExampleGrades /\ gpaReplies'[1].gpa = 320) ]_vars

\* the report of [(3, 95), (2, 68)]
C7_Witness ==
    /\ IsGpaReport(gpaReplies)
    /\ Len(gpaReplies[1].lines) = 2
    /\ gpaReplies[1].lines[1].credit = 30 /\ gpaReplies[1].lines[1].score = 950
    /\ gpaReplies[1].lines[2].credit = 20 /\ gpaReplies[1].lines[2].score = 680
    /\ gpaReplies[1].gpa = 320
    /\ courses = <<>>

\* the entries of the pricing table for the tracker's selection whose two
\* rates are numbers
UsableRates(tr) ==
    { r \in _load_pricing :
        /\ IsSome(tr.admission_group) /\ r.group = Val(tr.admission_group)
        /\ IsSome(tr.faculty) /\ r.faculty = Val(tr.faculty)
        /\ IsSome(r.general) /\ IsSome(r.major) }

ExampleTracker(sender) ==
    [sender_id |-> sender, admission_group |-> Some("2024_2025"),
     faculty |-> Some("faculty_science"), general_credits |-> Some(100),
     major_credits |-> Some(50)]

\* C8: a calculation without group or faculty answers missing-selection;
\* one whose selection has no usable rates answers pricing-not-found; both
\* report no total and leave the tables alone; any other reports
\* generalCredits * generalRate + majorCredits * majorRate, which is 20000
\* for 10 and 5 credits at 1000 and 2000.
C8_Tuition ==
    [][ LET tr == tuTracker'
            last == tuReplies'[Len(tuReplies')]
        IN  /\ (~IsSome(tr.admission_group) \/ ~IsSome(tr.faculty)) =>
                   /\ tuReplies' = <<TuMsg("missing_selection", 0)>>
                   /\ UNCHANGED <<users, tuition_runs>>
            /\ (IsSome(tr.admission_group) /\ IsSome(tr.faculty)
                /\ UsableRates(tr) = {}) =>
                   /\ tuReplies' = <<TuMsg("pricing_not_found", 0)>>
                   /\ UNCHANGED <<users, tuition_runs>>
            /\ \A r \in UsableRates(tr) :
                   /\ last.kind = "total"
                   /\ last.total = CreditOrZero(tr.general_credits) * Val(r.general)
                                   + CreditOrZero(tr.major_credits) * Val(r.major)
            /\ (\E sender \in Senders : tr = ExampleTracker(sender)) =>
                   last = TuMsg("total", 200000) ]_vars

\* 10 and 5 credits at 1000 and 2000: 20000, and the run is stored
C8_Witness ==
    /\ tuTracker = ExampleTracker("alice")
    /\ tuReplies = <<TuMsg("total", 200000)>>
    /\ Len(tuition_runs) = 1
    /\ tuition_runs[1].total_tuition = 200000

\* C9: a calculation whose persistence fails (it has usable rates and
\* stores no run) reports the failure and then the total, the same total
\* a calculation that stores its run reports.
C9_PersistenceFailure ==
    [][ \A r \in UsableRates(tuTracker') :
            LET total == CreditOrZero(tuTracker'.general_credits) * Val(r.general)
                         + CreditOrZero(tuTracker'.major_credits) * Val(r.major)
            IN  /\ tuition_runs' = tuition_runs =>
                       tuReplies' = <<TuMsg("db_save_failed", 0), TuMsg("total", total)>>
                /\ tuition_runs' # tuition_runs =>
                       tuReplies' = <<TuMsg("total", total)>> ]_vars

\* the failure was reported and the total 20000 still sent, nothing stored
C9_Witness ==
    /\ tuTracker = ExampleTracker("bob")
    /\ tuReplies = <<TuMsg("db_save_failed", 0), TuMsg("total", 200000)>>
    /\ tuition_runs = <<>>

\* one row per sender id, and every run's user_id is the id of a row
C10_TablesConsistent ==
    /\ \A i, j \in 1..Len(users) : users[i].sender_id = users[j].sender_id => i = j
    /\ \A i, j \in 1..Len(users) : users[i].id = users[j].id => i = j
    /\ \A k \in 1..Len(tuition_runs) :
           \E i \in 1..Len(users) : users[i].id = tuition_runs[k].user_id

\* the runs before the step are still there, unchanged; a calculation that
\* reports only its total has added exactly one run, of its sender; any
\* other has added none
C10_AppendOnly ==
    /\ Len(tuition_runs') >= Len(tuition_runs)
    /\ SubSeq(tuition_runs', 1, Len(tuition_runs)) = tuition_runs
    /\ IF Len(tuReplies') = 1 /\ tuReplies'[1].kind = "total"
       THEN /\ Len(tuition_runs') = Len(tuition_runs) + 1
            /\ \E i \in 1..Len(users') :
                   /\ users'[i].sender_id = tuTracker'.sender_id
                   /\ users'[i].id = tuition_runs'[Len(tuition_runs')].user_id
       ELSE tuition_runs' = tuition_runs

\* C10: the identities table has at most one row per sender id, every run
\* references an existing identity, a calculation whose persistence
\* succeeds appends exactly one run and no run is ever changed or removed.
C10_Store == [](C10_TablesConsistent) /\ [][C10_AppendOnly]_vars

\* one sender calculated twice: one identity row, two runs
C10_Witness ==
    /\ Len(users) = 1
    /\ Len(tuition_runs) = 2
    /\ tuition_runs[1].user_id = tuition_runs[2].user_id

\* C11 as claimed: a turn that has set pendingNumber (it asked for the
\* kind) is followed, whatever the next turn's text and intent, by a state
\* where pendingNumber is None.
C11_Transient ==
    [][ (locReplies = AskKindReply /\ IsSome(pendingNumber))
            => pendingNumber' = None ]_vars

\* the kind a continuation turn resolves: from the text of the turn taken,
\* else the recorded placeType
C11_ChosenKind ==
    IF IsSome(LocTextFacts[latestText'].kind) THEN LocTextFacts[latestText'].kind
    ELSE placeType

\* C11 amended: after a turn that has set pendingNumber, a next turn that
\* is a disambiguation continuation (intent choose_place_type) with a
\* resolvable kind leaves pendingNumber None; a continuation without a
\* resolvable kind keeps it; a turn of another intent clears it, keeps it
\* or replaces it by the number extracted from its own text.
C11_TransientUntilResolved ==
    [][ (locReplies = AskKindReply /\ IsSome(pendingNumber)) =>
            /\ (latestIntent' = "choose_place_type" /\ IsSome(C11_ChosenKind))
                   => pendingNumber' = None
            /\ (latestIntent' = "choose_place_type" /\ ~IsSome(C11_ChosenKind))
                   => pendingNumber' = pendingNumber
            /\ latestIntent' # "choose_place_type" =>
                   \/ pendingNumber' \in {None, pendingNumber}
                   \/ /\ IsSome(LocTextFacts[latestText'].num)
                      /\ pendingNumber' =
                             Some(IntToStr(Val(LocTextFacts[latestText'].num))) ]_vars

\* "5", then "hicheeliin bair" as the chosen kind: class 5 is not in the
\* catalog, the slot is cleared and no kind recorded
C11_Witness ==
    /\ latestText = T_hicheeliin_bair
    /\ latestIntent = "choose_place_type"
    /\ locReplies = <<LocMsg("not_found_by_number", NoPlace, <<>>)>>
    /\ pendingNumber = None
    /\ placeType = None

IsFinalizeReply(replies) ==
    replies # <<>> /\ replies[1].kind \in {"no_courses", "gpa_report"}

\* C12: after ActionCalculateGpa.run, on the empty path and on the report
\* path, numberOfCourses is None, currentCourseIndex is 1, currentCredit and
\* currentScore are None and courses is empty.
C12_FinalizeResets ==
    [][ IsFinalizeReply(gpaReplies') =>
            /\ numberOfCourses' = None
            /\ currentCourseIndex' = 1
            /\ currentCredit' = None
            /\ currentScore' = None
            /\ courses' = <<>> ]_vars

\* a report of two courses was sent and the session of two is reset
C12_Witness ==
    /\ IsGpaReport(gpaReplies)
    /\ Len(gpaReplies[1].lines) = 2
    /\ gpaReplies[1].lines[2].score = 700
    /\ numberOfCourses = None
    /\ currentCourseIndex = 1
    /\ currentCredit = None
    /\ currentScore = None
    /\ courses = <<>>

\* the value v is a number the score test accepts
AcceptedScore(v) == v # None /\ 0 <= Val(v) /\ Val(v) <= 1000

C14_EntriesValid ==
    \A i \in 1..Len(courses) :
        /\ 0 < courses[i].credit /\ courses[i].credit <= 300
        /\ 0 <= courses[i].score /\ courses[i].score <= 1000

\* C15 as claimed: once the n pairs of a run are in, whatever rejected
\* inputs came in between, currentCourseIndex is n and courses holds the n
\* submitted pairs in order; and the calculation then reports n lines.
C15_ReachesReady ==
    /\ formRun.phase = "ready" =>
           /\ currentCourseIndex = formRun.n
           /\ courses = formRun.pairs
    /\ formRun.phase = "done" =>
           /\ IsGpaReport(gpaReplies)
           /\ Len(gpaReplies[1].lines) = formRun.n

\* v tenths cut to an integer: the integer t nearest to zero with
\* |v/10 - t| < 1
C16_TruncatedTable ==
    [v \in -10..520 |->
        CHOOSE t \in -2..60 :
            /\ v >= 0 => (10 * t <= v /\ v < 10 * t + 10)
            /\ v < 0 => (10 * t >= v /\ v > 10 * t - 10)]
C16_Truncated(v) == C16_TruncatedTable[v]

\* C16: a step of setCourseCount(v) is rejected (a prompt, numberOfCourses
\* None) unless v is a number that cut to an integer n has 1 <= n <= 50;
\* then numberOfCourses = n, currentCourseIndex = 1 and courses is empty.
C16_SetCourseCount ==
    [][ \A v \in CountInputs :
            validate_number_of_courses(v) =>
                IF v # None /\ 1 <= C16_Truncated(Val(v)) /\ C16_Truncated(Val(v)) <= 50
                THEN /\ numberOfCourses' = Some(C16_Truncated(Val(v)))
                     /\ currentCourseIndex' = 1
                     /\ courses' = <<>>
                     /\ gpaReplies' = <<>>
                ELSE /\ numberOfCourses' = None
                     /\ Len(gpaReplies') = 1
                     /\ gpaReplies'[1].kind \in {"count_not_a_number",
                                                 "count_out_of_range"} ]_vars

\* a count of 2.7 given after a course was entered: 2 courses to come,
\* the list empty again (the score of the discarded course is still set)
C16_Witness ==
    /\ numberOfCourses = Some(2)
    /\ currentCourseIndex = 1
    /\ courses = <<>>
    /\ currentScore = Some(950)
    /\ gpaReplies = <<>>

C17_CountRejected(v) ==
    v = None \/ ~(1 <= C16_Truncated(Val(v)) /\ C16_Truncated(Val(v)) <= 50)
C17_CreditRejected(v) == v = None \/ ~(0 < Val(v) /\ Val(v) <= 300)
C17_ScoreRejected(v) == v = None \/ ~(0 <= Val(v) /\ Val(v) <= 1000)

\* C17: a step of a validator on an input that is not a number or is out
\* of range sends one prompt, sets the validated slot to None and changes
\* no other field of the session.
C17_RejectedInput ==
    [][ /\ \A v \in CountInputs :
               (C17_CountRejected(v) /\ validate_number_of_courses(v)) =>
                   /\ Len(gpaReplies') = 1
                   /\ gpaReplies'[1].kind \in {"count_not_a_number", "count_out_of_range"}
                   /\ numberOfCourses' = None
                   /\ UNCHANGED <<currentCourseIndex, currentCredit, currentScore,
                                  courses>>
        /\ \A v \in CreditInputs :
               (C17_CreditRejected(v) /\ validate_current_credit(v)) =>
                   /\ Len(gpaReplies') = 1
                   /\ gpaReplies'[1].kind \in {"credit_not_a_number", "credit_out_of_range"}
                   /\ currentCredit' = None
                   /\ UNCHANGED <<numberOfCourses, currentCourseIndex, currentScore,
                                  courses>>
        /\ \A v \in ScoreInputs :
               (C17_ScoreRejected(v) /\ validate_current_score(v)) =>
                   /\ Len(gpaReplies') = 1
                   /\ gpaReplies'[1].kind \in {"score_not_a_number", "score_out_of_range"}
                   /\ currentScore' = None
                   /\ UNCHANGED <<numberOfCourses, currentCourseIndex, currentCredit,
                                  courses>> ]_vars

\* a credit out of range given for the second of two courses: the prompt
\* is sent, the credit slot is empty and the first course is still there
C17_Witness ==
    /\ gpaReplies = <<GpaMsg("credit_out_of_range")>>
    /\ currentCredit = None
    /\ numberOfCourses = Some(2)
    /\ currentCourseIndex = 2
    /\ Len(courses) = 1

\* the places of the catalog with kind k and number n
PlacesOf(k, n) ==
    { ALL_PLACES[i] : i \in { j \in 1..Len(ALL_PLACES) :
                                 /\ ALL_PLACES[j].kind = k
                                 /\ ALL_PLACES[j].number = Some(n) } }

\* the reply of the step taken shows a place of kind k and number n
RepliesPlaceOf(k, n) ==
    /\ Len(locReplies') = 1
    /\ locReplies'[1].kind \in {"place", "place_link_missing"}
    /\ locReplies'[1].place \in PlacesOf(k, n)

\* the step taken is a continuation: intent choose_place_type with
\* pendingNumber set
C18_Continuation == latestIntent' = "choose_place_type" /\ IsSome(pendingNumber)

C18_NoKind ==
    /\ locReplies' = <<LocMsg("ask_kind_again", NoPlace, <<>>)>>
    /\ UNCHANGED <<pendingNumber, placeType>>

C18_Found(k, n) ==
    /\ RepliesPlaceOf(k, n)
    /\ pendingNumber' = None
    /\ placeType' = Some(k)

C18_NotFound ==
    /\ locReplies' = <<LocMsg("not_found_by_number", NoPlace, <<>>)>>
    /\ pendingNumber' = None
    /\ placeType' = placeType

\* C18 as claimed: a continuation is decided before any other step; with
\* no kind from the text or from placeType it prompts and changes nothing;
\* with (kind, pendingNumber) in the catalog it replies the place, clears
\* pendingNumber and records the kind; with (kind, pendingNumber) not in
\* the catalog it replies not-found-by-number, clears pendingNumber and
\* leaves placeType.
C18_ContinuationAsClaimed ==
    [][ C18_Continuation =>
            LET k == C11_ChosenKind
                n == Val(ParseInt(Val(pendingNumber)))
            IN  IF ~IsSome(k) THEN C18_NoKind
                ELSE IF PlacesOf(Val(k), n) # {} THEN C18_Found(Val(k), n)
                ELSE C18_NotFound ]_vars

\* C18 amended: the same, the not-found branch being for a pair that is
\* not forbidden; a forbidden pair is answered not-available, with
\* pendingNumber cleared and the kind recorded.
C18_ContinuationBranches ==
    [][ C18_Continuation =>
            LET k == C11_ChosenKind
                n == Val(ParseInt(Val(pendingNumber)))
            IN  IF ~IsSome(k) THEN C18_NoKind
                ELSE IF PlacesOf(Val(k), n) # {} THEN C18_Found(Val(k), n)
                ELSE IF <<Val(k), n>> \in {<<"dorm", 4>>, <<"class", 6>>}
                THEN /\ locReplies' = NotAvailableReply
                     /\ pendingNumber' = None
                     /\ placeType' = k
                ELSE C18_NotFound ]_vars

\* "5", then "dotuur bair" as the chosen kind with dorm 5 in the catalog
C18_Witness ==
    /\ latestText = T_dotuur_bair
    /\ latestIntent = "choose_place_type"
    /\ locReplies = <<say_place(R_dorm5)>>
    /\ pendingNumber = None
    /\ placeType = Some("dorm")

\* the step taken is neither a continuation nor a list request, and its
\* text gives a number and a kind
C19_NumberAndKind ==
    /\ ~C18_Continuation
    /\ ~LocTextFacts[latestText'].is_list
    /\ IsSome(LocTextFacts[latestText'].num)
    /\ LocTextFacts[latestText'].kind \in {Some("dorm"), Some("class")}

\* C19: such a turn with (kind, number) forbidden replies not-available,
\* records the kind and clears pendingNumber; with (kind, number) in the
\* catalog it replies the place, records the kind and clears pendingNumber;
\* else it replies not-found and changes neither slot.
C19_NumberKindKnown ==
    [][ C19_NumberAndKind =>
            LET k == Val(LocTextFacts[latestText'].kind)
                n == Val(LocTextFacts[latestText'].num)
            IN  IF <<k, n>> \in {<<"dorm", 4>>, <<"class", 6>>}
                THEN /\ locReplies' = NotAvailableReply
                     /\ placeType' = Some(k)
                     /\ pendingNumber' = None
                ELSE IF PlacesOf(k, n) # {}
                THEN /\ RepliesPlaceOf(k, n)
                     /\ placeType' = Some(k)
                     /\ pendingNumber' = None
                ELSE /\ locReplies' = <<LocMsg("not_found_by_number", NoPlace, <<>>)>>
                     /\ UNCHANGED <<pendingNumber, placeType>> ]_vars

\* "dorm 7 baiar" asked while "4" is pending and class recorded: not found,
\* both slots as they were
C19_Witness ==
    /\ latestText = T_dorm_7_baiar
    /\ latestIntent = "ask_location"
    /\ locReplies = <<LocMsg("not_found_by_number", NoPlace, <<>>)>>
    /\ pendingNumber = Some(<<"4">>)
    /\ placeType = Some("class")

\* the step taken reaches the alias steps: it is no continuation, no list
\* request, no bare number or building phrase without a kind, and no
\* number with a kind
C20_NoEarlierStep ==
    LET f == LocTextFacts[latestText']
    IN  /\ ~C18_Continuation
        /\ ~f.is_list
        /\ ~(IsSome(f.num) /\ ~IsSome(f.kind) /\ f.phrase)
        /\ ~(IsSome(f.num) /\ f.kind \in {Some("dorm"), Some("class")})

\* the reply of the step taken shows place p
C20_Replies(p) ==
    /\ Len(locReplies') = 1
    /\ locReplies'[1].kind \in {"place", "place_link_missing"}
    /\ locReplies'[1].place = p

C21_Titled == { i \in 1..Len(ALL_PLACES) : ALL_PLACES[i].title # "" }

\* ts holds the titles of the titled catalog records, in catalog order
C21_TitlesInOrder(ts) ==
    /\ Len(ts) = Cardinality(C21_Titled)
    /\ \A i \in C21_Titled :
           ts[Cardinality({ j \in C21_Titled : j <= i })] = ALL_PLACES[i].title

\* C21: a turn that is no continuation and is a list request, or reaches
\* the alias steps (exact match, substring match, fallback), leaves
\* pendingNumber and placeType as they were; the list reply holds the
\* titles of all catalog records in catalog order, without the untitled.
C21_NoStateChange ==
    [][ /\ (~C18_Continuation /\ LocTextFacts[latestText'].is_list) =>
               /\ UNCHANGED <<pendingNumber, placeType>>
               /\ Len(locReplies') = 1
               /\ locReplies'[1].kind = "list"
               /\ C21_TitlesInOrder(locReplies'[1].titles)
        /\ C20_NoEarlierStep =>
               /\ UNCHANGED <<pendingNumber, placeType>>
               /\ Len(locReplies') = 1
               /\ locReplies'[1].kind \in {"place", "place_link_missing", "not_found"} ]_vars

\* "List." asked while "4" is pending, over an untitled class 4 and dorm 5:
\* one title, the slot still "4"
C21_Witness ==
    /\ rawPlaces = <<R_class4, R_dorm5>>
    /\ latestText = T_List
    /\ latestIntent = "ask_location"
    /\ locReplies = <<LocMsg("list", NoPlace, <<"Dorm 5">>)>>
    /\ pendingNumber = Some(<<"4">>)

\* record p is a place of (dorm, 4) or (class, 6)
C22_Excluded(p) ==
    /\ p.is_dict
    /\ \/ p.kind = "dorm" /\ p.number = Some(4)
       \/ p.kind = "class" /\ p.number = Some(6)

\* title t is the title of a raw record that is not excluded
C22_TitleOfAllowed(t) ==
    \E i \in 1..Len(rawPlaces) :
        /\ rawPlaces[i].is_dict
        /\ ~C22_Excluded(rawPlaces[i])
        /\ rawPlaces[i].title = t

\* C22: whatever the raw records and the turns so far, no reply shows a
\* place of (dorm, 4) or (class, 6), and no list reply names one.
C22_NeverForbidden ==
    \A i \in 1..Len(locReplies) :
        /\ locReplies[i].kind \in {"place", "place_link_missing"} =>
               ~C22_Excluded(locReplies[i].place)
        /\ locReplies[i].kind = "list" =>
               \A k \in 1..Len(locReplies[i].titles) :
                   C22_TitleOfAllowed(locReplies[i].titles[k])

\* "d4", an alias of the excluded dorm 4 and of the untitled class 4, is
\* answered with class 4
C22_Witness ==
    /\ rawPlaces = <<R_dorm4, R_class4>>
    /\ latestText = T_d4
    /\ Len(locReplies) = 1
    /\ locReplies[1].place = R_class4

====
